---- MODULE Spec2Model ----
(***************************************************************************)
(* Uninformed route search (route.py, bfs.py, dfs.py, main.py).            *)
(*                                                                         *)
(* Python objects are modelled by value:                                   *)
(*   - None is the string "None" (locations and road names are strings);   *)
(*   - a dict is a function whose DOMAIN is its key set; the inner dicts   *)
(*     of road_dict, whose key order decides the order of the children,    *)
(*     are sequences of <<road, destination>> pairs in insertion order;    *)
(*   - Node objects live in the sequence heap, in creation order; a Node   *)
(*     reference is its index, and 0 is the None reference;                *)
(*   - road costs are counted in tenths (3.1 is 31); a cost lookup that    *)
(*     may return None returns <<cost>>, or <<>> for None.                 *)
(***************************************************************************)
EXTENDS Integers, Sequences, FiniteSets, TLC

None == "None"

\* route.py:28
depth_limit == 20

----------------------------------------------------------------------------
\* Bounds of the small-graph specification.

\* number of add_road calls that build a map
MaxRoads == 3
\* number of add_road calls that build a map of the specification with fairness
FairRoads == 2
\* largest depth limit the small maps are searched with
SmallLimit == 2

Locs == {"a", "b", "c"}
RoadNames == {"r1", "r2"}
\* the cost a small map gives to a road from start to end: one cost per pair
\* of locations, the direct road from a to b dearer than the way round by c
RoadCost(start, end) ==
    IF {start, end} = {"a", "b"} THEN 25 ELSE 10
Limits == 1..SmallLimit

----------------------------------------------------------------------------
\* dicts

\* dict.setdefault(k, {}) as its effect on the dict
setdefault(d, k) ==
    IF k \in DOMAIN d THEN d ELSE [x \in DOMAIN d \cup {k} |-> IF x = k THEN <<>> ELSE d[x]]

\* d[k] = v on an unordered dict
dict_set(d, k, v) == [x \in DOMAIN d \cup {k} |-> IF x = k THEN v ELSE d[x]]

\* dict.get(k) on a dict of costs: <<v>>, or <<>> for None
dict_get(d, k) == IF k \in DOMAIN d THEN <<d[k]>> ELSE <<>>

\* position of key k in an ordered dict, 0 when absent
key_index(od, k) ==
    IF \E j \in 1..Len(od) : od[j][1] = k
    THEN CHOOSE j \in 1..Len(od) : od[j][1] = k
    ELSE 0

\* od[k] = v on an ordered dict: a present key keeps its place
odict_set(od, k, v) ==
    IF key_index(od, k) = 0
    THEN Append(od, <<k, v>>)
    ELSE [od EXCEPT ![key_index(od, k)] = <<k, v>>]

\* od.get(k) on an ordered dict
odict_get(od, k) == IF key_index(od, k) = 0 THEN None ELSE od[key_index(od, k)][2]

\* od.keys(), in insertion order
odict_keys(od) == [j \in 1..Len(od) |-> od[j][1]]

----------------------------------------------------------------------------
\* RoadMap: a record [connection_dict, road_dict]

RoadMap_init == [connection_dict |-> <<>>, road_dict |-> <<>>]

add_road(m, start, end, name, cost) ==
    LET cd == setdefault(m.connection_dict, start)
        cd2 == [cd EXCEPT ![start] = dict_set(cd[start], end, cost)]
        rd == setdefault(m.road_dict, start)
        rd2 == [rd EXCEPT ![start] = odict_set(rd[start], name, end)]
    IN  [connection_dict |-> cd2,
         road_dict |-> IF name # None THEN rd2 ELSE m.road_dict]

\* RoadMap.get reading connection_dict[start] as it is, without setdefault
RoadMap_get_map_plain(m, start) == m

\* RoadMap.get: the map the call leaves behind
RoadMap_get_map(m, start) ==
    [m EXCEPT !.connection_dict = setdefault(m.connection_dict, start)]

\* RoadMap.get: the value returned
RoadMap_get(m, start, end) ==
    LET successors == RoadMap_get_map(m, start).connection_dict[start]
    IN  IF end = None THEN successors ELSE dict_get(successors, end)

\* RoadMap.get_result: the map the call leaves behind
RoadMap_get_result_map(m, start) ==
    [m EXCEPT !.road_dict = setdefault(m.road_dict, start)]

\* RoadMap.get_result: the value returned
RoadMap_get_result(m, start, road) ==
    LET successors == RoadMap_get_result_map(m, start).road_dict[start]
    IN  IF road = None THEN successors ELSE odict_get(successors, road)

----------------------------------------------------------------------------
\* RouteProblem: a record [map, start, goal].  actions and result leave the
\* map as RoadMap.get_result does, action_cost as RoadMap.get does.

actions(p, loc) == odict_keys(RoadMap_get_result(p.map, loc, None))

result(p, loc, road) == RoadMap_get_result(p.map, loc, road)

is_goal(p, loc) == loc = p.goal

action_cost(p, start, end) == RoadMap_get(p.map, start, end)

----------------------------------------------------------------------------
\* Node

\* Node.__init__ with the depth of a parentless node set to 1
Node_depth1(h, loc, parent, road, path_cost) ==
    [loc |-> loc, parent |-> parent, road |-> road, path_cost |-> path_cost,
     depth |-> IF parent # 0 THEN h[parent].depth + 1 ELSE 1]

\* Node.__init__: the new object, given the heap that holds its parent
Node(h, loc, parent, road, path_cost) ==
    [loc |-> loc, parent |-> parent, road |-> road, path_cost |-> path_cost,
     depth |-> IF parent # 0 THEN h[parent].depth + 1 ELSE 0]

\* Node.child_node raises TypeError: the road has no cost to add
child_node_raises(h, self, p, road) ==
    action_cost(p, h[self].loc, result(p, h[self].loc, road)) = <<>>

\* Node.child_node giving the child the cost of its own road alone
child_node_own_cost(h, self, p, road) ==
    LET child_loc == result(p, h[self].loc, road)
        child_cost == IF child_node_raises(h, self, p, road)
                      THEN 0
                      ELSE action_cost(p, h[self].loc, child_loc)[1]
    IN  Node(h, child_loc, self, road, child_cost)

\* Node.child_node: the child node
child_node(h, self, p, road) ==
    LET child_loc == result(p, h[self].loc, road)
        child_cost == IF child_node_raises(h, self, p, road)
                      THEN 0
                      ELSE h[self].path_cost + action_cost(p, h[self].loc, child_loc)[1]
    IN  Node(h, child_loc, self, road, child_cost)

\* the list comprehension of Node.expand: one child per road of
\* problem.actions(self.loc), in the order of the keys, ended by the first
\* child that raises.  All the lookups are made at self.loc: actions leaves
\* the map p1.map, and the first child, like every child after it, p2.map.
child_nodes(h, self, p) ==
    LET roads == actions(p, h[self].loc)
        p1 == [p EXCEPT !.map = RoadMap_get_result_map(p.map, h[self].loc)]
        p2 == [p EXCEPT !.map = RoadMap_get_map(p1.map, h[self].loc)]
    IN  [map |-> IF roads = <<>> THEN p1.map ELSE p2.map,
         error |-> \E j \in 1..Len(roads) : child_node_raises(h, self, p1, roads[j]),
         nodes |-> [j \in 1..Len(roads) |-> child_node(h, self, p1, roads[j])]]

\* Node.expand with the cutoff one level late (> for >=)
expand_past(h, self, p, count, lim) ==
    IF h[self].depth > lim
    THEN [count |-> count + 1, map |-> p.map, error |-> FALSE, nodes |-> <<>>]
    ELSE [count |-> count + 1] @@ child_nodes(h, self, p)

\* Node.expand without the depth cutoff
expand_nolimit(h, self, p, count, lim) ==
    [count |-> count + 1] @@ child_nodes(h, self, p)

\* Node.expand counting only the calls that get past the cutoff
expand_countlate(h, self, p, count, lim) ==
    IF h[self].depth >= lim
    THEN [count |-> count, map |-> p.map, error |-> FALSE, nodes |-> <<>>]
    ELSE [count |-> count + 1] @@ child_nodes(h, self, p)

\* Node.expand: the counter after the call, the children, the map the
\* lookups leave behind
expand(h, self, p, count, lim) ==
    IF h[self].depth >= lim
    THEN [count |-> count + 1, map |-> p.map, error |-> FALSE, nodes |-> <<>>]
    ELSE [count |-> count + 1] @@ child_nodes(h, self, p)

RECURSIVE solution_with_roads_backwards(_, _)
\* Node.solution_with_roads without the final reversal
solution_with_roads_backwards(h, self) ==
    IF self = 0
    THEN <<>>
    ELSE <<<<h[self].road, h[self].loc>>>>
            \o solution_with_roads_backwards(h, h[self].parent)

RECURSIVE solution_with_roads(_, _)
\* Node.solution_with_roads
solution_with_roads(h, self) ==
    IF self = 0
    THEN <<>>
    ELSE Append(solution_with_roads(h, h[self].parent), <<h[self].road, h[self].loc>>)

\* Node.__eq__
Node_eq(h, x, y) == h[x].loc = h[y].loc

----------------------------------------------------------------------------
\* Frontier: a record [lifo, nodes]

Frontier(root_node, stack) == [lifo |-> stack, nodes |-> <<root_node>>]

is_empty(f) == Len(f.nodes) = 0

\* Frontier.add putting the node at the head
Frontier_add_front(f, new_node) == [f EXCEPT !.nodes = <<new_node>> \o f.nodes]

\* Frontier.add of one node
Frontier_add(f, new_node) == [f EXCEPT !.nodes = Append(f.nodes, new_node)]

\* Frontier.add of a list of nodes
Frontier_add_list(f, new_nodes) == [f EXCEPT !.nodes = f.nodes \o new_nodes]

\* Frontier.pop changing the mode as it takes the node
Frontier_pop_switching(f) ==
    IF f.lifo
    THEN [node |-> f.nodes[Len(f.nodes)],
          frontier |-> [lifo |-> FALSE, nodes |-> SubSeq(f.nodes, 1, Len(f.nodes) - 1)]]
    ELSE [node |-> Head(f.nodes), frontier |-> [lifo |-> TRUE, nodes |-> Tail(f.nodes)]]

\* Frontier.pop taking the newest node whatever the mode
Frontier_pop_newest(f) ==
    [node |-> f.nodes[Len(f.nodes)],
     frontier |-> [f EXCEPT !.nodes = SubSeq(f.nodes, 1, Len(f.nodes) - 1)]]

\* Frontier.pop taking the oldest node whatever the mode
Frontier_pop_oldest(f) ==
    [node |-> Head(f.nodes), frontier |-> [f EXCEPT !.nodes = Tail(f.nodes)]]

\* Frontier.pop: the removed node and the frontier left
Frontier_pop(f) ==
    IF f.lifo
    THEN [node |-> f.nodes[Len(f.nodes)],
          frontier |-> [f EXCEPT !.nodes = SubSeq(f.nodes, 1, Len(f.nodes) - 1)]]
    ELSE [node |-> Head(f.nodes), frontier |-> [f EXCEPT !.nodes = Tail(f.nodes)]]

----------------------------------------------------------------------------
\* The driver and the two searches, one step at a time.

VARIABLES
    test_map,               \* main.py: the RoadMap
    problem,                \* main.py: the RouteProblem's start and goal (its map is test_map)
    limit,                  \* route.py: the depth limit in force
    pc,                     \* where the program is
    run,                    \* main.py: which of the four tests is running
    heap,                   \* the Node objects of the running search
    sett,                   \* bfs.py, dfs.py: the frontier
    reachedSet,             \* bfs.py: the set of reached nodes
    reachedList,            \* dfs.py: the list of reached locations (reachedSet there)
    takenNode,              \* the node popped last
    explored,               \* its children
    i,                      \* position of the for loop in explored
    sol,                    \* main.py: the returned node, 0 for None
    node_expansion_count,   \* vars.node_expansion_count
    report,                 \* main.py: what each finished test printed
    popped,                 \* history: the nodes popped by the running search
    map0,                   \* history: the map as it was when the problem was made
    roads_added,            \* history: number of add_road calls
    looked                  \* history: the lookups made on the map outside a search

vars == <<test_map, problem, limit, pc, run, heap, sett, reachedSet, reachedList,
          takenNode, explored, i, sol, node_expansion_count, report, popped,
          map0, roads_added, looked>>

\* main.py: the four tests in order
Tests == << [alg |-> "BFS", repeat_check |-> FALSE],
            [alg |-> "BFS", repeat_check |-> TRUE],
            [alg |-> "DFS", repeat_check |-> FALSE],
            [alg |-> "DFS", repeat_check |-> TRUE] >>

alg == Tests[run].alg
repeat_check == Tests[run].repeat_check

\* the RouteProblem object: its map is the one shared RoadMap
Problem == [map |-> test_map, start |-> problem.start, goal |-> problem.goal]

NoFrontier == [lifo |-> FALSE, nodes |-> <<>>]

\* the membership test of bfs.py with its sense inverted
reached_contains_inverted(h, reached, n) == ~ \E x \in reached : Node_eq(h, x, n)

\* reachedSet.__contains__(i) in bfs.py: a set of Nodes, equal by location
reached_contains(h, reached, n) == \E x \in reached : Node_eq(h, x, n)

\* the membership test of dfs.py looking at the first entry only
list_contains_first(reached, loc) == reached[1] = loc

\* reachedSet.__contains__(i.loc) in dfs.py: a list of locations
list_contains(reached, loc) == \E j \in 1..Len(reached) : reached[j] = loc

Init ==
    /\ test_map = RoadMap_init
    /\ problem = [start |-> None, goal |-> None]
    /\ limit = depth_limit
    /\ pc = "build"
    /\ run = 1
    /\ heap = <<>>
    /\ sett = NoFrontier
    /\ reachedSet = {}
    /\ reachedList = <<>>
    /\ takenNode = 0
    /\ explored = <<>>
    /\ i = 1
    /\ sol = 0
    /\ node_expansion_count = 0
    /\ report = <<>>
    /\ popped = <<>>
    /\ map0 = RoadMap_init
    /\ roads_added = 0
    /\ looked = <<>>

\* test_map.add_road(start, end, name, cost), called at most max times
AddRoadUpTo(max) ==
    /\ pc = "build"
    /\ roads_added < max
    /\ \E start \in Locs, end \in Locs, name \in RoadNames \cup {None} :
            test_map' = add_road(test_map, start, end, name, RoadCost(start, end))
    /\ roads_added' = roads_added + 1
    /\ UNCHANGED <<problem, limit, pc, run, heap, sett, reachedSet, reachedList,
                   takenNode, explored, i, sol, node_expansion_count, report,
                   popped, map0, looked>>

AddRoad == AddRoadUpTo(MaxRoads)

\* problem = RouteProblem(test_map, start_location, goal_location)
NewProblem ==
    /\ pc = "build"
    /\ \E start \in Locs, goal \in Locs \cup {None} :
            problem' = [start |-> start, goal |-> goal]
    /\ \E lim \in Limits : limit' = lim
    /\ pc' = "main"
    /\ map0' = test_map
    /\ UNCHANGED <<test_map, run, heap, sett, reachedSet, reachedList, takenNode,
                   explored, i, sol, node_expansion_count, report, popped,
                   roads_added, looked>>

\* the call of a search without the reset of the counter before it
Call_noreset ==
    /\ pc = "main"
    /\ node_expansion_count' = node_expansion_count
    /\ heap' = <<Node(<<>>, Problem.start, 0, None, 0)>>
    /\ popped' = <<>>
    /\ takenNode' = 0
    /\ explored' = <<>>
    /\ i' = 1
    /\ IF is_goal(Problem, heap'[1].loc)
       THEN /\ sol' = 1
            /\ pc' = "returned"
            /\ sett' = NoFrontier
            /\ reachedSet' = {}
            /\ reachedList' = <<>>
       ELSE /\ sol' = 0
            /\ pc' = "while"
            /\ sett' = Frontier(1, alg = "DFS")
            /\ reachedSet' = IF repeat_check /\ alg = "BFS" THEN {1} ELSE {}
            /\ reachedList' = IF repeat_check /\ alg = "DFS" THEN <<heap'[1].loc>> ELSE <<>>
    /\ UNCHANGED <<test_map, problem, limit, run, report, map0, roads_added,
                   looked>>

\* vars.node_expansion_count = 0; sol = BFS(problem, flag) or DFS(problem, flag),
\* up to the while loop
Call ==
    /\ pc = "main"
    /\ node_expansion_count' = 0
    /\ heap' = <<Node(<<>>, Problem.start, 0, None, 0)>>
    /\ popped' = <<>>
    /\ takenNode' = 0
    /\ explored' = <<>>
    /\ i' = 1
    /\ IF is_goal(Problem, heap'[1].loc)
       THEN /\ sol' = 1
            /\ pc' = "returned"
            /\ sett' = NoFrontier
            /\ reachedSet' = {}
            /\ reachedList' = <<>>
       ELSE /\ sol' = 0
            /\ pc' = "while"
            /\ sett' = Frontier(1, alg = "DFS")
            /\ reachedSet' = IF repeat_check /\ alg = "BFS" THEN {1} ELSE {}
            /\ reachedList' = IF repeat_check /\ alg = "DFS" THEN <<heap'[1].loc>> ELSE <<>>
    /\ UNCHANGED <<test_map, problem, limit, run, report, map0, roads_added,
                   looked>>

\* the while test and the loop body up to the for loop
While ==
    /\ pc = "while"
    /\ IF is_empty(sett)
       THEN /\ sol' = 0
            /\ pc' = "returned"
            /\ UNCHANGED <<test_map, heap, sett, takenNode, explored, i,
                           node_expansion_count, popped>>
       ELSE \E t \in {Frontier_pop(sett)} :
            /\ sett' = t.frontier
            /\ takenNode' = t.node
            /\ popped' = Append(popped, t.node)
            /\ IF is_goal(Problem, heap[t.node].loc)
               THEN /\ sol' = t.node
                    /\ pc' = "returned"
                    /\ UNCHANGED <<test_map, heap, explored, i, node_expansion_count>>
               ELSE \E e \in {expand(heap, t.node, Problem, node_expansion_count, limit)} :
                    /\ node_expansion_count' = e.count
                    /\ test_map' = e.map
                    /\ heap' = heap \o e.nodes
                    /\ explored' = [j \in 1..Len(e.nodes) |-> Len(heap) + j]
                    /\ i' = 1
                    /\ pc' = IF e.error THEN "error"
                             ELSE IF Len(e.nodes) = 0 THEN "while" ELSE "for"
                    /\ sol' = sol
    /\ UNCHANGED <<problem, limit, run, reachedSet, reachedList, report, map0,
                   roads_added, looked>>

\* one pass of the for loop over explored
For ==
    /\ pc = "for"
    /\ LET c == explored[i] IN
        IF repeat_check
        THEN IF alg = "BFS"
             THEN IF ~ reached_contains(heap, reachedSet, c)
                  THEN /\ sett' = Frontier_add(sett, c)
                       /\ reachedSet' = reachedSet \cup {c}
                       /\ UNCHANGED reachedList
                  ELSE UNCHANGED <<sett, reachedSet, reachedList>>
             ELSE IF ~ list_contains(reachedList, heap[c].loc)
                  THEN /\ sett' = Frontier_add(sett, c)
                       /\ reachedList' = Append(reachedList, heap[c].loc)
                       /\ UNCHANGED reachedSet
                  ELSE UNCHANGED <<sett, reachedSet, reachedList>>
        ELSE /\ sett' = Frontier_add(sett, c)
             /\ UNCHANGED <<reachedSet, reachedList>>
    /\ i' = i + 1
    /\ pc' = IF i < Len(explored) THEN "for" ELSE "while"
    /\ UNCHANGED <<test_map, problem, limit, run, heap, takenNode, explored, sol,
                   node_expansion_count, report, popped, map0, roads_added,
                   looked>>

\* main.py: print the solution and go on to the next test
Report ==
    /\ pc = "returned"
    /\ report' = Append(report,
          IF sol = 0
          THEN [found |-> FALSE, roads |-> <<>>, depth |-> 0, path_cost |-> 0,
                expansions |-> 0]
          ELSE [found |-> TRUE,
                roads |-> Tail(solution_with_roads(heap, sol)),
                depth |-> heap[sol].depth,
                path_cost |-> heap[sol].path_cost,
                expansions |-> node_expansion_count])
    /\ IF run < Len(Tests)
       THEN /\ run' = run + 1
            /\ pc' = "main"
       ELSE /\ run' = run
            /\ pc' = "exit"
    /\ UNCHANGED <<test_map, problem, limit, heap, sett, reachedSet, reachedList,
                   takenNode, explored, i, sol, node_expansion_count, popped,
                   map0, roads_added, looked>>

Next == AddRoad \/ NewProblem \/ Call \/ While \/ For \/ Report

Spec == Init /\ [][Next]_vars

\* The same program on maps of FairRoads roads, with the fairness a program
\* counter gives: the program always goes on to its next step.
AddRoadFair == AddRoadUpTo(FairRoads)

NextFair == AddRoadFair \/ NewProblem \/ Call \/ While \/ For \/ Report

FairSpec == Init /\ [][NextFair]_vars /\ WF_vars(NextFair)

----------------------------------------------------------------------------
\* The driver as written: main.py's map, start and goal, route.py's depth limit.

\* main.py: the costs of test_map, in tenths
test_connection_dict ==
    "home" :> ("corner_store" :> 31 @@ "fire_station" :> 33 @@
               "coffee_shop" :> 36 @@ "bus_station" :> 69) @@
    "corner_store" :> ("home" :> 31 @@ "school" :> 42) @@
    "fire_station" :> ("home" :> 33 @@ "coffee_shop" :> 51 @@
                       "police_station" :> 99) @@
    "school" :> ("corner_store" :> 42 @@ "bus_station" :> 58 @@
                 "stadium" :> 181) @@
    "coffee_shop" :> ("home" :> 36 @@ "fire_station" :> 51 @@
                      "bus_station" :> 49 @@ "donut_shop" :> 66) @@
    "bus_station" :> ("home" :> 69 @@ "school" :> 58 @@
                      "coffee_shop" :> 49 @@ "fast_food" :> 42 @@
                      "stadium" :> 160) @@
    "police_station" :> ("fire_station" :> 99 @@ "grocery_store" :> 39 @@
                         "factory" :> 63) @@
    "donut_shop" :> ("coffee_shop" :> 66 @@ "grocery_store" :> 37) @@
    "grocery_store" :> ("police_station" :> 39 @@ "donut_shop" :> 37 @@
                        "gym" :> 42) @@
    "gym" :> ("grocery_store" :> 42 @@ "factory" :> 49 @@ "car_dealer" :> 130) @@
    "factory" :> ("police_station" :> 63 @@ "gym" :> 49) @@
    "car_dealer" :> ("gym" :> 130 @@ "truck_stop" :> 153 @@
                     "fast_food" :> 279) @@
    "truck_stop" :> ("car_dealer" :> 153 @@ "bookstore" :> 14) @@
    "fast_food" :> ("bus_station" :> 42 @@ "bookstore" :> 42 @@
                    "car_dealer" :> 279) @@
    "bookstore" :> ("fast_food" :> 42 @@ "truck_stop" :> 14 @@ "diner" :> 144) @@
    "stadium" :> ("school" :> 181 @@ "bus_station" :> 160 @@ "ranch" :> 154) @@
    "ranch" :> ("stadium" :> 154 @@ "diner" :> 191 @@ "park" :> 355) @@
    "diner" :> ("ranch" :> 191 @@ "bookstore" :> 144) @@
    "park" :> ("ranch" :> 355)

\* main.py: the named roads of test_map, in the order they are written
test_road_dict ==
    "home" :> <<<<"path", "corner_store">>, <<"sidewalk", "fire_station">>,
                <<"hill_street", "coffee_shop">>,
                <<"central", "bus_station">>>> @@
    "corner_store" :> <<<<"path", "home">>, <<"north_street", "school">>>> @@
    "fire_station" :> <<<<"sidewalk", "home">>, <<"narrows", "coffee_shop">>,
                        <<"back_street", "police_station">>>> @@
    "school" :> <<<<"north_street", "corner_store">>,
                  <<"elm_street", "bus_station">>,
                  <<"hill_pass", "stadium">>>> @@
    "coffee_shop" :> <<<<"hill_street", "home">>,
                       <<"narrows", "fire_station">>,
                       <<"the_avenue", "bus_station">>,
                       <<"side_street", "donut_shop">>>> @@
    "bus_station" :> <<<<"central", "home">>, <<"elm_street", "school">>,
                       <<"the_avenue", "coffee_shop">>,
                       <<"highway_north", "fast_food">>,
                       <<"stadium_street", "stadium">>>> @@
    "police_station" :> <<<<"back_street", "fire_station">>,
                          <<"lower_main", "grocery_store">>,
                          <<"grimey_place", "factory">>>> @@
    "donut_shop" :> <<<<"side_street", "coffee_shop">>,
                      <<"upper_main", "grocery_store">>>> @@
    "grocery_store" :> <<<<"lower_main", "police_station">>,
                         <<"upper_main", "donut_shop">>, <<"alley", "gym">>>> @@
    "gym" :> <<<<"alley", "grocery_store">>, <<"damp_drive", "factory">>,
               <<"long_drive", "car_dealer">>>> @@
    "factory" :> <<<<"grimey_place", "police_station">>,
                   <<"damp_drive", "gym">>>> @@
    "car_dealer" :> <<<<"long_drive", "gym">>, <<"back_road", "truck_stop">>,
                      <<"overgrown_path", "fast_food">>>> @@
    "truck_stop" :> <<<<"back_road", "car_dealer">>,
                      <<"highway_south", "bookstore">>>> @@
    "fast_food" :> <<<<"highway_north", "bus_station">>,
                     <<"highway_east", "bookstore">>,
                     <<"overgrown_path", "car_dealer">>>> @@
    "bookstore" :> <<<<"highway_east", "fast_food">>,
                     <<"highway_south", "truck_stop">>,
                     <<"access_road", "diner">>>> @@
    "stadium" :> <<<<"hill_pass", "school">>,
                   <<"stadium_street", "bus_station">>,
                   <<"gravel_road", "ranch">>>> @@
    "ranch" :> <<<<"gravel_road", "stadium">>, <<"old_highway", "diner">>,
                 <<"dirt_road", "park">>>> @@
    "diner" :> <<<<"old_highway", "ranch">>, <<"access_road", "bookstore">>>> @@
    "park" :> <<<<"dirt_road", "ranch">>>>

start_location == "home"
goal_location == "bookstore"

InitMap ==
    /\ test_map = [connection_dict |-> test_connection_dict,
                   road_dict |-> test_road_dict]
    /\ problem = [start |-> start_location, goal |-> goal_location]
    /\ limit = depth_limit
    /\ pc = "main"
    /\ run = 1
    /\ heap = <<>>
    /\ sett = NoFrontier
    /\ reachedSet = {}
    /\ reachedList = <<>>
    /\ takenNode = 0
    /\ explored = <<>>
    /\ i = 1
    /\ sol = 0
    /\ node_expansion_count = 0
    /\ report = <<>>
    /\ popped = <<>>
    /\ map0 = test_map
    /\ roads_added = 0
    /\ looked = <<>>

NextMap == Call \/ While \/ For \/ Report

SpecMap == InitMap /\ [][NextMap]_vars

----------------------------------------------------------------------------
\* The four searches under route.py's depth limit on maps with two ways from
\* s to x: a short one of two roads by u, and a long one of n + 1 roads by
\* the n locations v1 .. vn.  One more road leads from x to the goal g.

Via == << "v1", "v2", "v3", "v4", "v5", "v6", "v7", "v8", "v9", "v10", "v11",
          "v12", "v13", "v14", "v15", "v16", "v17", "v18", "v19", "v20", "v21" >>

\* the RoadMap that add_road calls for these roads, each of cost 1.0, leave:
\* the road from s to u is added before or after the road from s to v1
DetourMap(n, short_first) ==
    LET at(k) == IF k = 0 THEN "s" ELSE IF k = n + 1 THEN "x" ELSE Via[k]
        starts == { at(k) : k \in 0..(n + 1) } \cup {"u"}
        pos(loc) == CHOOSE k \in 1..n : at(k) = loc
        short == << "short", "u" >>
        long == << "long", at(1) >>
        roads(loc) ==
            IF loc = "s" THEN (IF short_first THEN <<short, long>> ELSE <<long, short>>)
            ELSE IF loc = "u" THEN << << "cut", "x" >> >>
            ELSE IF loc = "x" THEN << << "last", "g" >> >>
            ELSE << << "long", at(pos(loc) + 1) >> >>
    IN  [connection_dict |->
            [a \in starts |->
                [e \in { roads(a)[j][2] : j \in 1..Len(roads(a)) } |-> 10]],
         road_dict |-> [a \in starts |-> roads(a)]]

InitDetour ==
    /\ \E n \in (depth_limit - 2)..depth_limit, short_first \in BOOLEAN :
            /\ test_map = DetourMap(n, short_first)
            /\ roads_added = n + 4
    /\ problem = [start |-> "s", goal |-> "g"]
    /\ limit = depth_limit
    /\ pc = "main"
    /\ run = 1
    /\ heap = <<>>
    /\ sett = NoFrontier
    /\ reachedSet = {}
    /\ reachedList = <<>>
    /\ takenNode = 0
    /\ explored = <<>>
    /\ i = 1
    /\ sol = 0
    /\ node_expansion_count = 0
    /\ report = <<>>
    /\ popped = <<>>
    /\ map0 = test_map
    /\ looked = <<>>

NextDetour == Call \/ While \/ For \/ Report

SpecDetour == InitDetour /\ [][NextDetour]_vars

----------------------------------------------------------------------------
\* A RoadMap on its own: add_road calls and lookups in any order.  A lookup
\* raises KeyError when, after its first line, the dict has no entry to read
\* at start.

\* number of add_road calls before and between the lookups
LookupRoads == 2
\* number of lookups
MaxLookups == 2

AddRoadLookup == AddRoadUpTo(LookupRoads)

\* test_map.get(start, end)
LookupGet ==
    /\ pc = "build"
    /\ Len(looked) < MaxLookups
    /\ \E start \in Locs, end \in Locs \cup {None} :
            LET m1 == RoadMap_get_map(test_map, start)
                raised == start \notin DOMAIN m1.connection_dict
            IN  /\ test_map' = m1
                /\ looked' = Append(looked,
                        [op |-> "get", start |-> start, key |-> end,
                         raised |-> raised,
                         ret |-> IF raised THEN <<>>
                                 ELSE RoadMap_get(test_map, start, end)])
    /\ UNCHANGED <<problem, limit, pc, run, heap, sett, reachedSet, reachedList,
                   takenNode, explored, i, sol, node_expansion_count, report,
                   popped, map0, roads_added>>

\* test_map.get_result(start, road)
LookupGetResult ==
    /\ pc = "build"
    /\ Len(looked) < MaxLookups
    /\ \E start \in Locs, road \in RoadNames \cup {None} :
            LET m1 == RoadMap_get_result_map(test_map, start)
                raised == start \notin DOMAIN m1.road_dict
            IN  /\ test_map' = m1
                /\ looked' = Append(looked,
                        [op |-> "get_result", start |-> start, key |-> road,
                         raised |-> raised,
                         ret |-> IF raised THEN <<>>
                                 ELSE RoadMap_get_result(test_map, start, road)])
    /\ UNCHANGED <<problem, limit, pc, run, heap, sett, reachedSet, reachedList,
                   takenNode, explored, i, sol, node_expansion_count, report,
                   popped, map0, roads_added>>

NextLookup == AddRoadLookup \/ LookupGet \/ LookupGetResult

SpecLookup == Init /\ [][NextLookup]_vars

----------------------------------------------------------------------------
\* Each of the four searches called twice in a row on the same RouteProblem,
\* the counter reset before each call as in main.py; what a call returned and
\* where it left the counter is kept in report.

\* sol and the counter are noted; the same search is called once more, or the
\* next search for the first time
ReportTwice ==
    /\ pc = "returned"
    /\ report' = Append(report,
          [found |-> sol # 0,
           roads |-> IF sol = 0 THEN <<>> ELSE solution_with_roads(heap, sol),
           depth |-> IF sol = 0 THEN 0 ELSE heap[sol].depth,
           path_cost |-> IF sol = 0 THEN 0 ELSE heap[sol].path_cost,
           expansions |-> node_expansion_count])
    /\ IF Len(report) % 2 = 0
       THEN /\ run' = run
            /\ pc' = "main"
       ELSE IF run < Len(Tests)
            THEN /\ run' = run + 1
                 /\ pc' = "main"
            ELSE /\ run' = run
                 /\ pc' = "exit"
    /\ UNCHANGED <<test_map, problem, limit, heap, sett, reachedSet, reachedList,
                   takenNode, explored, i, sol, node_expansion_count, popped,
                   map0, roads_added, looked>>

NextTwice == AddRoad \/ NewProblem \/ Call \/ While \/ For \/ ReportTwice

SpecTwice == Init /\ [][NextTwice]_vars

----------------------------------------------------------------------------
\* A Frontier on its own: made in either mode, then any add and pop calls.
\* Each add makes its nodes as it adds them, so that a node's place in heap is
\* its turn of insertion.

\* number of nodes made for the frontier, the root node included
MaxNodes == 5

InitFrontier ==
    /\ test_map = RoadMap_init
    /\ problem = [start |-> None, goal |-> None]
    /\ limit = depth_limit
    /\ pc = "frontier"
    /\ run = 1
    /\ heap = <<Node(<<>>, "a", 0, None, 0)>>
    /\ \E stack \in BOOLEAN : sett = Frontier(1, stack)
    /\ reachedSet = {}
    /\ reachedList = <<>>
    /\ takenNode = 0
    /\ explored = <<>>
    /\ i = 1
    /\ sol = 0
    /\ node_expansion_count = 0
    /\ report = <<>>
    /\ popped = <<>>
    /\ map0 = RoadMap_init
    /\ roads_added = 0
    /\ looked = <<>>

\* sett.add(Node(loc))
FrontierAdd ==
    /\ pc = "frontier"
    /\ Len(heap) < MaxNodes
    /\ \E loc \in Locs :
            heap' = Append(heap, Node(heap, loc, 0, None, 0))
    /\ sett' = Frontier_add(sett, Len(heap) + 1)
    /\ UNCHANGED <<test_map, problem, limit, pc, run, reachedSet, reachedList,
                   takenNode, explored, i, sol, node_expansion_count, report,
                   popped, map0, roads_added, looked>>

\* sett.add([Node(loc1), Node(loc2)])
FrontierAddList ==
    /\ pc = "frontier"
    /\ Len(heap) + 1 < MaxNodes
    /\ \E loc1 \in Locs, loc2 \in Locs :
            heap' = heap \o <<Node(heap, loc1, 0, None, 0), Node(heap, loc2, 0, None, 0)>>
    /\ sett' = Frontier_add_list(sett, <<Len(heap) + 1, Len(heap) + 2>>)
    /\ UNCHANGED <<test_map, problem, limit, pc, run, reachedSet, reachedList,
                   takenNode, explored, i, sol, node_expansion_count, report,
                   popped, map0, roads_added, looked>>

\* takenNode = sett.pop(), on a frontier that is not empty
FrontierPop ==
    /\ pc = "frontier"
    /\ ~ is_empty(sett)
    /\ \E t \in {Frontier_pop(sett)} :
            /\ sett' = t.frontier
            /\ takenNode' = t.node
            /\ popped' = Append(popped, t.node)
    /\ UNCHANGED <<test_map, problem, limit, pc, run, heap, reachedSet,
                   reachedList, explored, i, sol, node_expansion_count, report,
                   map0, roads_added, looked>>

NextFrontier == FrontierAdd \/ FrontierAddList \/ FrontierPop

SpecFrontier == InitFrontier /\ [][NextFrontier]_vars

----------------------------------------------------------------------------
\* What the claims speak of, defined on the map alone.

\* the named roads of a map as <<start, end>> pairs
RoadPairs(m) ==
    UNION { { <<x, m.road_dict[x][j][2]>> : j \in 1..Len(m.road_dict[x]) } :
            x \in DOMAIN m.road_dict }

RECURSIVE ReachWithin(_, _, _)
\* the locations some path of at most k roads leads to from s
ReachWithin(m, s, k) ==
    IF k = 0
    THEN {s}
    ELSE LET R == ReachWithin(m, s, k - 1)
         IN  R \cup { e[2] : e \in { f \in RoadPairs(m) : f[1] \in R } }

\* a path of at most k roads leads from s to g
Within(m, s, g, k) == g \in ReachWithin(m, s, k)

\* the least number of roads on a path from s to g, when Within(m, s, g, k)
MinDist(m, s, g, k) ==
    CHOOSE d \in 0..k : /\ Within(m, s, g, d)
                        /\ \A e \in 0..(d - 1) : ~ Within(m, s, g, e)

RECURSIVE PathCosts(_, _, _)
\* <<location, cost>> for every path of at most k roads from s
PathCosts(m, s, k) ==
    IF k = 0
    THEN {<<s, 0>>}
    ELSE LET P == PathCosts(m, s, k - 1)
         IN  P \cup UNION { { <<e[2], q[2] + m.connection_dict[e[1]][e[2]]>> :
                               e \in { f \in RoadPairs(m) : f[1] = q[1] } } : q \in P }

RECURSIVE Ancestor(_, _, _)
\* the node j parent links above node n
Ancestor(h, n, j) == IF j = 0 THEN n ELSE Ancestor(h, h[n].parent, j - 1)

\* the running search has returned
Returned == pc = "returned"

\* the running search has returned a node
ReturnedNode == pc = "returned" /\ sol # 0

----------------------------------------------------------------------------
\* C1: when the start is the goal, each of the four searches returns the root
\* node, of depth 0 and path cost 0, without a single expansion.
C1_StartIsGoal ==
    (Returned /\ problem.start = problem.goal) =>
        /\ sol # 0
        /\ heap[sol].parent = 0
        /\ heap[sol].loc = problem.start
        /\ heap[sol].depth = 0
        /\ heap[sol].path_cost = 0
        /\ node_expansion_count = 0
        /\ popped = <<>>

\* the last of the four searches has returned at a start that is the goal and
\* has roads leading out of it; the three before it reported depth 0 too
C1_Witness ==
    /\ Returned
    /\ run = 4
    /\ problem.start = problem.goal
    /\ problem.start \in DOMAIN map0.road_dict
    /\ map0.road_dict[problem.start] # <<>>
    /\ Len(report) = 3
    /\ \A k \in 1..3 : report[k].found /\ report[k].depth = 0

\* C2: BFS, with or without repeat-check, returns a goal node whose depth is
\* the least number of roads from start to goal, when that is within the
\* depth limit.
C2_BFSShallowest ==
    (Returned /\ alg = "BFS"
        /\ Within(map0, problem.start, problem.goal, limit)) =>
        /\ sol # 0
        /\ heap[sol].loc = problem.goal
        /\ heap[sol].depth = MinDist(map0, problem.start, problem.goal, limit)

\* BFS has returned a goal node although a cheaper path to the goal exists
\* within the depth limit: shallowest, not cheapest
C2_Witness ==
    /\ ReturnedNode
    /\ alg = "BFS"
    /\ heap[sol].depth >= 1
    /\ \E q \in PathCosts(map0, problem.start, limit) :
            q[1] = problem.goal /\ q[2] < heap[sol].path_cost

\* C3: when no path from start to goal exists within the depth limit, each of
\* the four searches returns None, and none ends in an error.
C3_NoSolution ==
    /\ pc # "error"
    /\ (Returned /\ ~ Within(map0, problem.start, problem.goal, limit)) => sol = 0

\* DFS without repeat-check has returned None on a map where the goal can be
\* reached, but only by more roads than the depth limit; it expanded a node
\* at the limit
C3_Witness ==
    /\ Returned
    /\ run = 3
    /\ sol = 0
    /\ ~ Within(map0, problem.start, problem.goal, limit)
    /\ Within(map0, problem.start, problem.goal, limit + 1)
    /\ \E k \in 1..Len(popped) : heap[popped[k]].depth = limit

\* C4: every search, once called, returns, on maps with cycles too, and no
\* node lies deeper than the depth limit.
C4_Terminates ==
    /\ (pc = "main") ~> (pc = "returned")
    /\ [](\A n \in 1..Len(heap) : heap[n].depth <= limit)

\* BFS without repeat-check has returned after coming back to the start
\* location along a cycle and expanding a node at the depth limit
C4_Witness ==
    /\ Returned
    /\ run = 1
    /\ \E k \in 1..Len(popped) :
            heap[popped[k]].depth > 0 /\ heap[popped[k]].loc = problem.start
    /\ \E k \in 1..Len(popped) :
            heap[popped[k]].depth = limit /\ heap[popped[k]].loc # problem.goal

\* C5 as stated: solution_with_roads() of a returned node has as many pairs
\* as the node's depth.
C5_LengthIsDepth ==
    ReturnedNode => Len(solution_with_roads(heap, sol)) = heap[sol].depth

\* C5 as amended: solution_with_roads() of a returned node has depth + 1
\* pairs, one (road, location) pair per node of the parent chain in root-to-node
\* order, the first being (None, start) for the root; without that first pair,
\* as the driver prints it, it has depth pairs.
C5_RootIncluded ==
    ReturnedNode =>
        LET s == solution_with_roads(heap, sol)
            d == heap[sol].depth
        IN  /\ Len(s) = d + 1
            /\ s[1] = <<None, problem.start>>
            /\ \A k \in 1..(d + 1) :
                    s[k] = << heap[Ancestor(heap, sol, d + 1 - k)].road,
                              heap[Ancestor(heap, sol, d + 1 - k)].loc >>
            /\ Len(Tail(s)) = d

\* a search has returned a node at least two roads from the root
C5_Witness == ReturnedNode /\ heap[sol].depth >= 2

\* C6 as stated: on the driver's map DFS returns a node of depth 4 whose last
\* step is highway_south from truck_stop to bookstore.
C6_DFSDepth4 ==
    (Returned /\ alg = "DFS") =>
        /\ sol # 0
        /\ heap[sol].depth = 4
        /\ heap[sol].road = "highway_south"
        /\ heap[sol].loc = "bookstore"
        /\ heap[heap[sol].parent].loc = "truck_stop"

\* C6 as amended: on the driver's map DFS returns a node of depth 19 without
\* repeat-check and of depth 5 with it, whose last step is access_road from
\* diner to bookstore.
C6_DFSOnMap ==
    (Returned /\ alg = "DFS") =>
        /\ sol # 0
        /\ heap[sol].depth = IF repeat_check THEN 5 ELSE 19
        /\ heap[sol].road = "access_road"
        /\ heap[sol].loc = "bookstore"
        /\ heap[heap[sol].parent].loc = "diner"

\* DFS with repeat-check has returned, after DFS without it reported a node
C6_Witness ==
    /\ Returned
    /\ run = 4
    /\ Len(report) = 3
    /\ report[3].found

\* C7: on the driver's map BFS returns, with and without repeat-check, a node
\* of depth 3 reached by central, highway_north and highway_east.
C7_BFSOnMap ==
    (Returned /\ alg = "BFS") =>
        /\ sol # 0
        /\ heap[sol].depth = 3
        /\ Tail(solution_with_roads(heap, sol)) =
                << <<"central", "bus_station">>,
                   <<"highway_north", "fast_food">>,
                   <<"highway_east", "bookstore">> >>

\* BFS with repeat-check has returned, after BFS without it reported a node
C7_Witness ==
    /\ Returned
    /\ run = 2
    /\ Len(report) = 1
    /\ report[1].found

\* C8: BFS without and BFS with repeat-check both return None, or both return
\* a goal node of the same depth.
C8_BFSModesAgree ==
    Len(report) >= 2 =>
        /\ report[1].found = report[2].found
        /\ report[1].depth = report[2].depth

\* both found a goal two or more roads away, and repeat-check saved expansions
C8_Witness ==
    /\ Len(report) >= 2
    /\ report[1].found
    /\ report[2].found
    /\ report[2].depth >= 2
    /\ report[2].expansions < report[1].expansions

\* number of expand() calls of the running search: the popped nodes that
\* were not at the goal
ExpandCalls ==
    Cardinality({ k \in 1..Len(popped) : heap[popped[k]].loc # problem.goal })

\* a step of a search leaves the counter alone, or adds one to it when the
\* step called expand(): when it popped a node that is not at the goal
CounterStep ==
    pc \in {"while", "for"} =>
        /\ node_expansion_count' >= node_expansion_count
        /\ IF Len(popped') = Len(popped) + 1 /\ heap[takenNode'].loc # problem.goal
           THEN node_expansion_count' = node_expansion_count + 1
           ELSE node_expansion_count' = node_expansion_count

\* C9: during a search the expansion counter equals the number of expand()
\* calls made since the reset; a step that calls expand() adds exactly one to
\* it, also at the depth cutoff, and no other step changes it.
C9_CounterCountsExpandCalls ==
    /\ [](pc \in {"while", "for", "returned"} => node_expansion_count = ExpandCalls)
    /\ [][CounterStep]_vars

\* a node at the depth limit has just been expanded, giving no children, and
\* the counter stands at two or more
C9_Witness ==
    /\ pc = "while"
    /\ takenNode # 0
    /\ heap[takenNode].depth = limit
    /\ heap[takenNode].loc # problem.goal
    /\ explored = <<>>
    /\ node_expansion_count >= 2

\* C10: the searches leave the map's cost and road mappings as they were when
\* the problem was made.
C10_MapUnchanged == pc # "build" => test_map = map0

----------------------------------------------------------------------------
\* the nodes the running search has put on its frontier so far, the root
\* included: those it has popped and those still waiting
EverAdded == popped \o sett.nodes

\* their locations
SeenLocs == { heap[EverAdded[k]].loc : k \in 1..Len(EverAdded) }

\* the locations in the reached collection: a set of nodes in BFS, a list of
\* locations in DFS
ReachedLocs ==
    IF alg = "BFS"
    THEN { heap[n].loc : n \in reachedSet }
    ELSE { reachedList[k] : k \in 1..Len(reachedList) }

\* with repeat-check, a pass of the for loop adds the child to the frontier
\* and records its location when the location is not yet reached, and does
\* neither when it is
RepeatCheckStep ==
    (pc = "for" /\ repeat_check) =>
        LET c == explored[i]
        IN  IF heap[c].loc \in ReachedLocs
            THEN /\ sett' = sett
                 /\ ReachedLocs' = ReachedLocs
            ELSE /\ sett'.nodes = Append(sett.nodes, c)
                 /\ ReachedLocs' = ReachedLocs \cup {heap[c].loc}

\* C11: with repeat-check, in BFS and in DFS, no two nodes ever put on the
\* frontier (the root included) have the same location, so no location is
\* popped or expanded twice; the reached collection holds exactly the
\* locations put on the frontier; and each child is tested and recorded in its
\* own pass of the for loop, before the next sibling.
C11_NoLocationTwice ==
    /\ []((repeat_check /\ pc \in {"while", "for", "returned"}) =>
            /\ \A j, k \in 1..Len(EverAdded) :
                    j # k => heap[EverAdded[j]].loc # heap[EverAdded[k]].loc
            /\ ReachedLocs = SeenLocs)
    /\ [][RepeatCheckStep]_vars

\* DFS with repeat-check has gone through two sibling children of the same
\* location: the first is on the frontier, the second was never added
C11_Witness ==
    /\ pc = "while"
    /\ run = 4
    /\ \E j, k \in 1..Len(explored) :
            /\ j < k
            /\ heap[explored[j]].loc = heap[explored[k]].loc
            /\ \E x \in 1..Len(sett.nodes) : sett.nodes[x] = explored[j]
            /\ \A x \in 1..Len(EverAdded) : EverAdded[x] # explored[k]

\* C12: in BFS, with or without repeat-check, the depths of the popped nodes
\* never decrease along the run, and the frontier holds its nodes in order of
\* depth, the deepest at most one deeper than the shallowest.
C12_BFSDepthOrder ==
    (alg = "BFS" /\ pc \in {"while", "for", "returned"}) =>
        /\ \A j, k \in 1..Len(popped) :
                j <= k => heap[popped[j]].depth <= heap[popped[k]].depth
        /\ \A j, k \in 1..Len(sett.nodes) :
                j <= k => /\ heap[sett.nodes[j]].depth <= heap[sett.nodes[k]].depth
                          /\ heap[sett.nodes[k]].depth - heap[sett.nodes[j]].depth <= 1

\* BFS without repeat-check is between two pops with nodes of depth 1 and of
\* depth 2 on its frontier, having popped the root and a node of depth 1
C12_Witness ==
    /\ pc = "while"
    /\ run = 1
    /\ Len(popped) >= 2
    /\ heap[popped[Len(popped)]].depth = 1
    /\ \E j, k \in 1..Len(sett.nodes) :
            heap[sett.nodes[j]].depth = 1 /\ heap[sett.nodes[k]].depth = 2

\* the nodes on the frontier
Present == { sett.nodes[k] : k \in 1..Len(sett.nodes) }

\* a pop takes the node of the frontier that was inserted first (FIFO) or
\* last (LIFO) and nothing else; an add puts its nodes after those that are
\* there, in either mode; the mode stays what it was
FrontierStep ==
    pc = "frontier" =>
        /\ sett'.lifo = sett.lifo
        /\ IF Len(popped') > Len(popped)
           THEN /\ takenNode' \in Present
                /\ popped'[Len(popped')] = takenNode'
                /\ IF sett.lifo
                   THEN \A n \in Present : n <= takenNode'
                   ELSE \A n \in Present : n >= takenNode'
                /\ Present' = Present \ {takenNode'}
                /\ Len(sett'.nodes) = Len(sett.nodes) - 1
           ELSE /\ SubSeq(sett'.nodes, 1, Len(sett.nodes)) = sett.nodes
                /\ Len(sett'.nodes) > Len(sett.nodes)
                /\ \A k \in (Len(sett.nodes) + 1)..Len(sett'.nodes) :
                        sett'.nodes[k] = Len(heap) + k - Len(sett.nodes)

\* C13: after any adds and pops, a pop from a FIFO frontier that is not empty
\* removes and returns the node inserted first among those present, a pop
\* from a LIFO frontier the node inserted last among them; the mode given at
\* construction never changes, and add appends at the same end in both modes.
C13_FrontierDiscipline ==
    /\ [](pc = "frontier" =>
            \A j, k \in 1..Len(sett.nodes) : j < k => sett.nodes[j] < sett.nodes[k])
    /\ [][FrontierStep]_vars

\* a LIFO frontier has given back a node, then one added after that pop, then
\* one that was waiting since before the first; a node is still on it
C13_Witness ==
    /\ pc = "frontier"
    /\ sett.lifo
    /\ Len(sett.nodes) >= 1
    /\ \E j, k, l \in 1..Len(popped) :
            /\ j < k
            /\ k < l
            /\ popped[j] < popped[k]
            /\ popped[l] < popped[j]

\* C14: no node is deeper than the depth limit, in the search tree or on the
\* frontier; a popped node at the depth limit has no children; and a popped
\* node at the goal is returned whatever its depth, so that only the last
\* popped node can be at the goal.
C14_DepthCutoff ==
    pc \in {"while", "for", "returned"} =>
        /\ \A n \in 1..Len(heap) : heap[n].depth <= limit
        /\ \A k \in 1..Len(sett.nodes) : heap[sett.nodes[k]].depth <= limit
        /\ \A k \in 1..Len(popped) :
                heap[popped[k]].depth >= limit =>
                    \A n \in 1..Len(heap) : heap[n].parent # popped[k]
        /\ \A k \in 1..Len(popped) :
                heap[popped[k]].loc = problem.goal =>
                    /\ k = Len(popped)
                    /\ pc = "returned"
                    /\ sol = popped[k]

\* a search has returned a goal node that lies at the depth limit, after
\* popping another node at the depth limit, which got no children
C14_Witness ==
    /\ ReturnedNode
    /\ heap[sol].depth = limit
    /\ \E k \in 1..Len(popped) :
            /\ heap[popped[k]].depth = limit
            /\ heap[popped[k]].loc # problem.goal

\* the problem on the map as it was when the problem was made
Problem0 == [map |-> map0, start |-> problem.start, goal |-> problem.goal]

\* C15: the root has the start location, depth 0, path cost 0, no parent and
\* no road; every other node has an earlier node as parent, one more than its
\* depth, the location its road leads to from the parent's location, and the
\* parent's path cost plus the cost from the parent's location to its own.  A
\* returned node is at the goal, and its path cost is the cost of a path of
\* its depth that the map has from the start to the goal.
C15_TreeInvariant ==
    (pc \in {"while", "for", "returned"}) =>
        /\ heap[1] = [loc |-> problem.start, parent |-> 0, road |-> None,
                      path_cost |-> 0, depth |-> 0]
        /\ \A n \in 2..Len(heap) :
                LET q == heap[n].parent
                IN  /\ q \in 1..(n - 1)
                    /\ heap[n].depth = heap[q].depth + 1
                    /\ heap[n].road # None
                    /\ heap[n].loc = result(Problem0, heap[q].loc, heap[n].road)
                    /\ action_cost(Problem0, heap[q].loc, heap[n].loc) # <<>>
                    /\ heap[n].path_cost = heap[q].path_cost
                            + action_cost(Problem0, heap[q].loc, heap[n].loc)[1]
        /\ ReturnedNode =>
                /\ heap[sol].loc = problem.goal
                /\ <<problem.goal, heap[sol].path_cost>>
                        \in PathCosts(map0, problem.start, heap[sol].depth)

\* a search has returned a node two roads from the start, by a dear road and
\* then a cheap one
C15_Witness ==
    /\ ReturnedNode
    /\ heap[sol].depth = 2
    /\ heap[heap[sol].parent].path_cost = 25
    /\ heap[sol].path_cost = 35

\* C16: a search returns None only when the goal cannot be reached within the
\* depth limit: when some path of at most limit roads leads from the start to
\* the goal, each of the four searches returns a node.
C16_FoundWithinLimit ==
    (Returned /\ Within(map0, problem.start, problem.goal, limit)) => sol # 0

\* a lookup does not raise, and returns what the map held before the call:
\* get the cost stored for start and end, or None; get_result the destination
\* stored for start and road, or None; either, without a second argument, the
\* whole inner dict of start, empty when start has no entry
LookupStep ==
    Len(looked') > Len(looked) =>
        LET c == looked'[Len(looked')]
            costs == IF c.start \in DOMAIN test_map.connection_dict
                     THEN test_map.connection_dict[c.start] ELSE <<>>
            roads == IF c.start \in DOMAIN test_map.road_dict
                     THEN test_map.road_dict[c.start] ELSE <<>>
        IN  /\ ~ c.raised
            /\ (c.op = "get" /\ c.key # None) =>
                    IF c.key \in DOMAIN costs
                    THEN c.ret = <<costs[c.key]>>
                    ELSE c.ret = <<>>
            /\ (c.op = "get" /\ c.key = None) =>
                    /\ DOMAIN c.ret = DOMAIN costs
                    /\ \A e \in DOMAIN costs : c.ret[e] = costs[e]
            /\ (c.op = "get_result" /\ c.key # None) =>
                    IF \E j \in 1..Len(roads) : roads[j][1] = c.key
                    THEN \E j \in 1..Len(roads) :
                            roads[j][1] = c.key /\ c.ret = roads[j][2]
                    ELSE c.ret = None
            /\ (c.op = "get_result" /\ c.key = None) => c.ret = roads

\* C17: the lookups of the map never raise: get(start, end) returns the stored
\* cost, or None when there is no direct road; get_result(start, road) returns
\* the destination, or None; and both return an empty dict for a location
\* without outgoing entries, one never added included.
C17_LookupsNeverFail ==
    /\ [](\A k \in 1..Len(looked) : ~ looked[k].raised)
    /\ [][LookupStep]_vars

\* the road of a location never added was asked for, giving None; then the
\* cost of a stored road was asked for and returned
C17_Witness ==
    /\ Len(looked) = 2
    /\ looked[1].op = "get_result"
    /\ looked[1].start = "c"
    /\ looked[1].key = "r1"
    /\ looked[1].ret = None
    /\ "c" \notin DOMAIN test_map.connection_dict
    /\ test_map.road_dict["c"] = <<>>
    /\ looked[2].op = "get"
    /\ looked[2].key # None
    /\ looked[2].ret = <<25>>

\* C18: a search called twice in a row with the same repeat-check flag on the
\* same map, start and goal, the counter reset to zero before each call,
\* returns the same both times (the same path, depth and cost, or None both
\* times) and leaves the counter at the same number.
C18_Deterministic ==
    \A k \in 1..Len(report) : k % 2 = 0 => report[k] = report[k - 1]

\* all four searches have been called twice; the last, DFS with repeat-check,
\* found the goal after two or more expansions, and the calls before it have
\* left an entry in the map that was not there when the problem was made
C18_Witness ==
    /\ Len(report) = 8
    /\ report[8].found
    /\ report[8].expansions >= 2
    /\ test_map # map0

====
